---- MODULE Spec2Model ----
(***************************************************************************)
(* Model of the HAP accessory database of hap-rs:                          *)
(*   src/src/db/accessory_list.rs   AccessoryList (add, remove, read,      *)
(*                                  write of characteristics)              *)
(*   src/src/transport/ip.rs        IpTransport (owner of the list)        *)
(* Accessory, Service and Characteristic live outside these two files;     *)
(* the few operations of them the list calls (set_id, init_iids, get_id,   *)
(* get_value, set_value, set_event_notifications) are modelled from the    *)
(* written specification of the repository.                                *)
(***************************************************************************)
EXTENDS Integers, Sequences, FiniteSets, TLC

VARIABLES
    accessories,          \* AccessoryList.accessories: the shared vector
    id_count,             \* AccessoryList.id_count of the transport's handle
    handles,              \* AIDs of the pointers add_accessory returned
    event_subscriptions,  \* per session: its vector of (aid, iid) pairs
    last,                 \* the call that just ran, with what it returned
    clone_id_count,       \* id_count of a clone of the list handle, if any
    borrows,              \* RefCell borrow flags held by a running dispatch
    pending,              \* a write dispatch suspended inside set_value
    listeners,            \* listeners registered on the event emitter
    config,               \* Config (the part the listener writes)
    txt_records,          \* TXT records the mDNS responder publishes
    pairings,             \* number of pairings in the database
    panicked              \* the process has panicked

\* The accessory list as one handle sees it.
listvars == <<accessories, id_count, handles, event_subscriptions>>

\* List handles cloned from the transport's, and dispatches in progress.
sharevars == <<clone_id_count, borrows, pending>>

\* The advertisement: emitter, config, responder, database.
advvars == <<listeners, config, txt_records, pairings, panicked>>

vars == <<listvars, last, sharevars, advvars>>

----------------------------------------------------------------------------
(* Bounds of the model. *)

\* add_accessory is enabled while fewer than MaxAdds accessories were added.
MaxAdds == 2

\* Values a write request may carry are 0..MaxReqValue.
MaxReqValue == 2

\* The database holds at most MaxPairings pairings.
MaxPairings == 3

----------------------------------------------------------------------------
(* Option<T>: None is the empty sequence, Some(x) the one-element one. *)

None == <<>>

Some(x) == <<x>>

IsSome(o) == Len(o) = 1

Unwrap(o) == o[1]

\* The least element of a non-empty set of indices: the one a loop meets first.
First(S) == CHOOSE i \in S : \A j \in S : i <= j

----------------------------------------------------------------------------
(* HAP status codes (transport::http::Status). *)

Success == 0

ReadOnlyCharacteristic == -70404

WriteOnlyCharacteristic == -70405

NotificationNotSupported == -70406

ResourceDoesNotExist == -70409

InvalidValueInRequest == -70410

----------------------------------------------------------------------------
(* The object tree: characteristics in services in accessories.            *)

Perms == {"PairedRead", "PairedWrite", "Events"}

\* A characteristic before it joins a list: IID 0, no notification flag.
\* min_value and max_value are the numeric bounds set_value validates against.
Characteristic(hap_type, perms, value, max_value) ==
    [id |-> 0, hap_type |-> hap_type, format |-> "uint8", perms |-> perms,
     value |-> value, unit |-> None, max_value |-> Some(max_value),
     min_value |-> Some(0), step_value |-> None, max_len |-> None,
     event_notifications |-> None]

Service(hap_type, characteristics) ==
    [id |-> 0, hap_type |-> hap_type, characteristics |-> characteristics]

Accessory(services) == [id |-> 0, services |-> services]

\* The accessories a caller may hand to add_accessory: an information-only
\* accessory (write-only Identify, read-only Name) and a lightbulb (On with
\* read, write and event permissions).
Templates ==
    [ info |-> Accessory(<<
          Service("AccessoryInformation", <<
              Characteristic("Identify", {"PairedWrite"}, 0, 1),
              Characteristic("Name", {"PairedRead"}, 1, 1) >>) >>),
      bulb |-> Accessory(<<
          Service("Lightbulb", <<
              Characteristic("On", {"PairedRead", "PairedWrite", "Events"}, 0, 1) >>) >>) ]

TemplateNames == DOMAIN Templates

\* HapAccessory::set_id / get_id.
set_id(a, id) == [a EXCEPT !.id = id]

get_id(a) == a.id

\* The IID the service at index si receives: IIDs are handed out depth first
\* from 1, a service before its characteristics.
RECURSIVE ServiceIid(_, _)
ServiceIid(services, si) ==
    IF si = 1 THEN 1
    ELSE ServiceIid(services, si - 1)
         + 1 + Len(services[si - 1].characteristics)

\* HapAccessory::init_iids: assigns every service and characteristic its IID.
init_iids(a) ==
    [a EXCEPT !.services =
        [si \in 1..Len(a.services) |->
            [a.services[si] EXCEPT
                !.id = ServiceIid(a.services, si),
                !.characteristics =
                    [ci \in 1..Len(a.services[si].characteristics) |->
                        [a.services[si].characteristics[ci] EXCEPT
                            !.id = ServiceIid(a.services, si) + ci]]]]]

\* Every IID a request may name: those a template can hold, and one more.
RECURSIVE TreeSize(_, _)
TreeSize(services, si) ==
    IF si = 0 THEN 0
    ELSE TreeSize(services, si - 1) + 1 + Len(services[si].characteristics)

MaxTreeSize ==
    CHOOSE n \in {TreeSize(Templates[t].services, Len(Templates[t].services)) :
                    t \in TemplateNames} :
        \A t \in TemplateNames :
            TreeSize(Templates[t].services, Len(Templates[t].services)) <= n

IIDs == 1..(MaxTreeSize + 1)

\* Every AID a request may name: those add_accessory can assign within the
\* bound; the last of them is in no list until the bound is reached.
AIDs == 1..MaxAdds

----------------------------------------------------------------------------
(* AccessoryList::new, add_accessory, remove_accessory.                    *)

\* A counter that is not advanced (a mutation of NextIdCount).
NextIdCountStuck(c) == c

\* self.id_count += 1 (u64; the bound MaxAdds keeps it far from 2^64).
NextIdCount(c) == c + 1

\* add_accessory: the list and the counter after the call and what it
\* returns. init_ok is whether init_iids succeeds; when it fails the `?`
\* returns before the push and before the increment.
add_accessory(accs, count, accessory, init_ok) ==
    LET a == init_iids(set_id(accessory, count)) IN
    IF ~init_ok
    THEN [accessories |-> accs, id_count |-> count, ret |-> None]
    ELSE [accessories |-> Append(accs, a),
          id_count |-> NextIdCount(count),
          ret |-> Some(get_id(a))]

\* An index that ignores where the match was (a mutation of RemoveIndex).
RemoveIndexFront(accs, handle_id) ==
    IF \E i \in 1..Len(accs) : get_id(accs[i]) = handle_id
    THEN Some(1) ELSE None

\* The index the enumerate loop of remove_accessory stops at: the first
\* accessory whose id is the handle's id, or None.
RemoveIndex(accs, handle_id) ==
    LET hits == {i \in 1..Len(accs) : get_id(accs[i]) = handle_id} IN
    IF hits = {} THEN None ELSE Some(First(hits))

\* Vec::remove(i).
VecRemove(v, i) == [k \in 1..(Len(v) - 1) |-> IF k < i THEN v[k] ELSE v[k + 1]]

\* remove_accessory: the list after the call and whether it returned Ok.
remove_accessory(accs, handle_id) ==
    LET remove == RemoveIndex(accs, handle_id) IN
    IF IsSome(remove)
    THEN [accessories |-> VecRemove(accs, Unwrap(remove)), ok |-> TRUE]
    ELSE [accessories |-> accs, ok |-> FALSE]

----------------------------------------------------------------------------
(* The lookup both dispatchers share: accessories in list order, services, *)
(* characteristics; the first characteristic of an accessory with the      *)
(* requested AID whose IID is the requested one ends the search (break 'l).*)

CharAt(accs, p) == accs[p[1]].services[p[2]].characteristics[p[3]]

\* Indices of the characteristics of a service whose IID is iid.
CharHits(service, iid) ==
    {k \in 1..Len(service.characteristics) : service.characteristics[k].id = iid}

\* Indices of the services of an accessory that hold such a characteristic.
ServiceHits(accessory, iid) ==
    {j \in 1..Len(accessory.services) : CharHits(accessory.services[j], iid) # {}}

\* Indices of the accessories with the requested AID that hold one.
AccessoryHits(accs, aid, iid) ==
    {i \in 1..Len(accs) : get_id(accs[i]) = aid /\ ServiceHits(accs[i], iid) # {}}

\* The position <<accessory, service, characteristic>> the nested loops
\* stop at, or None when they run to the end.
Lookup(accs, aid, iid) ==
    IF AccessoryHits(accs, aid, iid) = {} THEN None
    ELSE LET i == First(AccessoryHits(accs, aid, iid))
             j == First(ServiceHits(accs[i], iid))
             k == First(CharHits(accs[i].services[j], iid))
         IN  Some(<<i, j, k>>)

SetCharAt(accs, p, c) ==
    [accs EXCEPT ![p[1]].services[p[2]].characteristics[p[3]] = c]

----------------------------------------------------------------------------
(* AccessoryList::read_characteristic.                                     *)

\* A permission check that always passes (a mutation of CanRead).
CanReadAlways(c) == TRUE

\* characteristic_perms.contains(&Perm::PairedRead)
CanRead(c) == "PairedRead" \in c.perms

\* The response object as constructed: everything None, status Some(0).
NewReadResponse(aid, iid) ==
    [iid |-> iid, aid |-> aid, hap_type |-> None, format |-> None,
     perms |-> None, ev |-> None, value |-> None, unit |-> None,
     max_value |-> None, min_value |-> None, step_value |-> None,
     max_len |-> None, status |-> Some(Success)]

\* The body run for the characteristic found.
ReadFound(r, c, meta, perms, hap_type, ev) ==
    IF CanRead(c)
    THEN [r EXCEPT
            !.value = Some(c.value),
            !.format = IF meta THEN Some(c.format) ELSE @,
            !.unit = IF meta THEN c.unit ELSE @,
            !.max_value = IF meta THEN c.max_value ELSE @,
            !.min_value = IF meta THEN c.min_value ELSE @,
            !.step_value = IF meta THEN c.step_value ELSE @,
            !.max_len = IF meta THEN c.max_len ELSE @,
            !.perms = IF perms THEN Some(c.perms) ELSE @,
            !.hap_type = IF hap_type THEN Some(c.hap_type) ELSE @,
            !.ev = IF ev THEN c.event_notifications ELSE @]
    ELSE [r EXCEPT !.status = Some(WriteOnlyCharacteristic)]

read_characteristic(accs, aid, iid, meta, perms, hap_type, ev) ==
    LET p == Lookup(accs, aid, iid) IN
    IF IsSome(p)
    THEN ReadFound(NewReadResponse(aid, iid), CharAt(accs, Unwrap(p)),
                   meta, perms, hap_type, ev)
    ELSE NewReadResponse(aid, iid)

----------------------------------------------------------------------------
(* Characteristic setters the write dispatcher calls.                      *)

\* Characteristic::set_event_notifications.
set_event_notifications(c, flag) == [c EXCEPT !.event_notifications = flag]

\* Whether a value conforms to the characteristic's numeric bounds.
ValidValue(c, v) ==
    /\ IsSome(c.min_value) => Unwrap(c.min_value) <= v
    /\ IsSome(c.max_value) => v <= Unwrap(c.max_value)

\* Characteristic::set_value: a value outside the bounds is rejected with
\* an error and changes nothing; an accepted one is stored, and published
\* as CharacteristicValueChanged when it differs from the old value.
set_value(c, aid, v) ==
    IF ~ValidValue(c, v)
    THEN [ok |-> FALSE, c |-> c, events |-> <<>>]
    ELSE [ok |-> TRUE,
          c |-> [c EXCEPT !.value = v],
          events |-> IF v # c.value
                     THEN << [kind |-> "CharacteristicValueChanged",
                              aid |-> aid, iid |-> c.id, value |-> v] >>
                     ELSE <<>>]

----------------------------------------------------------------------------
(* AccessoryList::write_characteristic.                                    *)

WriteObject(aid, iid, value, ev) ==
    [aid |-> aid, iid |-> iid, value |-> value, ev |-> ev]

\* es.iter().position(|&s| s == subscription)
Position(es, subscription) ==
    LET hits == {i \in 1..Len(es) : es[i] = subscription} IN
    IF hits = {} THEN None ELSE Some(First(hits))

\* A reconciliation that pushes without looking (a mutation of Reconcile).
ReconcilePushAlways(es, subscription, ev) ==
    IF ev THEN Append(es, subscription) ELSE es

\* match (ev, pos): push when subscribing and absent, remove when
\* unsubscribing and present, nothing otherwise.
Reconcile(es, subscription, ev) ==
    LET pos == Position(es, subscription) IN
    IF ev /\ ~IsSome(pos) THEN Append(es, subscription)
    ELSE IF ~ev /\ IsSome(pos) THEN VecRemove(es, Unwrap(pos))
    ELSE es

\* A permission check that always passes (a mutation of CanWrite).
CanWriteAlways(c) == TRUE

\* characteristic_perms.contains(&Perm::Events)
CanNotify(c) == "Events" \in c.perms

\* characteristic_perms.contains(&Perm::PairedWrite)
CanWrite(c) == "PairedWrite" \in c.perms

\* if let Some(ev) = write_object.ev { ... }: the characteristic, the
\* subscriptions and the status after the ev step.
EvStep(c, es, status, wo) ==
    IF ~IsSome(wo.ev) THEN [c |-> c, es |-> es, status |-> status]
    ELSE IF CanNotify(c)
    THEN [c |-> set_event_notifications(c, Some(Unwrap(wo.ev))),
          es |-> Reconcile(es, <<wo.aid, wo.iid>>, Unwrap(wo.ev)),
          status |-> status]
    ELSE [c |-> c, es |-> es, status |-> NotificationNotSupported]

\* if let Some(value) = write_object.value { ... }: ok is FALSE when
\* set_value returned an error, which `?` hands to the caller.
ValueStep(c, status, wo) ==
    IF ~IsSome(wo.value)
    THEN [ok |-> TRUE, c |-> c, status |-> status, events |-> <<>>]
    ELSE IF CanWrite(c)
    THEN LET sv == set_value(c, wo.aid, Unwrap(wo.value)) IN
         [ok |-> sv.ok, c |-> sv.c, status |-> status, events |-> sv.events]
    ELSE [ok |-> TRUE, c |-> c, status |-> ReadOnlyCharacteristic,
          events |-> <<>>]

\* The whole call: the list and the subscriptions after it, the events it
\* published, and what it returned (Some(response), or None for Err; the
\* ev step's effects stay when the value step fails).
write_characteristic(accs, wo, es) ==
    LET p == Lookup(accs, wo.aid, wo.iid) IN
    IF ~IsSome(p)
    THEN [accessories |-> accs, es |-> es, events |-> <<>>,
          ret |-> Some([aid |-> wo.aid, iid |-> wo.iid, status |-> Success])]
    ELSE LET e == EvStep(CharAt(accs, Unwrap(p)), es, Success, wo)
             v == ValueStep(e.c, e.status, wo)
         IN  [accessories |-> SetCharAt(accs, Unwrap(p), v.c),
              es |-> e.es,
              events |-> v.events,
              ret |-> IF v.ok
                      THEN Some([aid |-> wo.aid, iid |-> wo.iid,
                                 status |-> v.status])
                      ELSE None]

----------------------------------------------------------------------------
(* The state machine. The transport is single threaded: a call into the    *)
(* list runs to its end and its result is taken before the next call.      *)
(*   event_subscriptions  the subscription vector the HTTP layer keeps per *)
(*                        session and passes to write_characteristic;      *)
(*   handles              the AIDs of the pointers add_accessory returned, *)
(*                        in the order they were returned;                 *)
(*   last                 the call that just ran with what it returned,    *)
(*                        Idle once the caller has taken the result.       *)

\* The session Spec writes through, and every session of the HTTP server.
Sessions == {"s1"}

AllSessions == {"s1", "s2"}

\* RefCell borrow flags: nothing is borrowed between calls.
NoBorrows == [accessories |-> FALSE, accessory |-> None]

\* StatusFlag::NotPaired / StatusFlag::Zero and the sf record they give.
StatusFlags == {"NotPaired", "Zero"}

\* Config::txt_records: the sf entry follows status_flag ("0" paired,
\* "1" not paired); the other entries do not depend on the pairing state.
txt_records_of(c) == [sf |-> IF c.status_flag = "Zero" THEN "0" ELSE "1"]

OptValues == {None} \cup {Some(v) : v \in 0..MaxReqValue}

OptBools == {None, Some(TRUE), Some(FALSE)}

Idle == [op |-> "idle"]

Init ==
    /\ accessories = <<>>
    /\ id_count = 1
    /\ handles = <<>>
    /\ event_subscriptions = [s \in AllSessions |-> <<>>]
    /\ last = Idle
    /\ clone_id_count = None
    /\ borrows = NoBorrows
    /\ pending = None
    /\ listeners = <<>>
    /\ config = [status_flag |-> "NotPaired"]
    /\ txt_records = txt_records_of([status_flag |-> "NotPaired"])
    /\ pairings = 0
    /\ panicked = FALSE

AddAccessory ==
    /\ last = Idle
    /\ id_count <= MaxAdds
    /\ \E t \in TemplateNames, init_ok \in BOOLEAN :
        LET r == add_accessory(accessories, id_count, Templates[t], init_ok) IN
        /\ accessories' = r.accessories
        /\ id_count' = r.id_count
        /\ handles' = IF IsSome(r.ret) THEN Append(handles, Unwrap(r.ret))
                      ELSE handles
        /\ last' = [op |-> "add", ret |-> r.ret]
    /\ UNCHANGED <<event_subscriptions, sharevars, advvars>>

RemoveAccessory ==
    /\ last = Idle
    /\ \E h \in 1..Len(handles) :
        LET r == remove_accessory(accessories, handles[h]) IN
        /\ accessories' = r.accessories
        /\ last' = [op |-> "remove", aid |-> handles[h], ok |-> r.ok]
    /\ UNCHANGED <<id_count, handles, event_subscriptions, sharevars, advvars>>

\* A read that clears the notification flag of the characteristic it finds
\* (a mutation of ReadCharacteristic).
ReadCharacteristicClearing ==
    /\ last = Idle
    /\ \E aid \in AIDs, iid \in IIDs, meta, perms, hap_type, ev \in BOOLEAN :
        LET p == Lookup(accessories, aid, iid) IN
        /\ last' = [op |-> "read", aid |-> aid, iid |-> iid,
                    meta |-> meta, perms |-> perms, hap_type |-> hap_type,
                    ev |-> ev,
                    ret |-> read_characteristic(accessories, aid, iid,
                                                meta, perms, hap_type, ev)]
        /\ accessories' =
            IF IsSome(p)
            THEN SetCharAt(accessories, Unwrap(p),
                           set_event_notifications(CharAt(accessories, Unwrap(p)),
                                                   Some(FALSE)))
            ELSE accessories
    /\ UNCHANGED <<id_count, handles, event_subscriptions, sharevars, advvars>>

\* read_characteristic takes &self and calls only getters of the
\* characteristic: nothing but the result changes.
ReadCharacteristic ==
    /\ last = Idle
    /\ \E aid \in AIDs, iid \in IIDs, meta, perms, hap_type, ev \in BOOLEAN :
        last' = [op |-> "read", aid |-> aid, iid |-> iid,
                 meta |-> meta, perms |-> perms, hap_type |-> hap_type,
                 ev |-> ev,
                 ret |-> read_characteristic(accessories, aid, iid,
                                             meta, perms, hap_type, ev)]
    /\ UNCHANGED <<listvars, sharevars, advvars>>

\* A write by one of the sessions of S.
WriteCharacteristicBy(S) ==
    /\ last = Idle
    /\ \E s \in S, aid \in AIDs, iid \in IIDs,
          value \in OptValues, ev \in OptBools :
        LET wo == WriteObject(aid, iid, value, ev)
            r == write_characteristic(accessories, wo, event_subscriptions[s])
        IN  /\ accessories' = r.accessories
            /\ event_subscriptions' = [event_subscriptions EXCEPT ![s] = r.es]
            /\ last' = [op |-> "write", session |-> s, wo |-> wo,
                        ret |-> r.ret, events |-> r.events]
    /\ UNCHANGED <<id_count, handles, sharevars, advvars>>

WriteCharacteristic == WriteCharacteristicBy(Sessions)

\* The caller takes the result; the next call may start.
Return ==
    /\ last # Idle
    /\ ~panicked
    /\ pending = None
    /\ last' = Idle
    /\ UNCHANGED <<listvars, sharevars, advvars>>

Next ==
    \/ AddAccessory
    \/ RemoveAccessory
    \/ ReadCharacteristic
    \/ WriteCharacteristic
    \/ Return

Spec == Init /\ [][Next]_vars

----------------------------------------------------------------------------
(* IpTransport::start and the listener it registers on the event emitter.  *)
(* The listener runs inside emit, on the transport's one thread; the       *)
(* RefCells of database, config and responder are free when an event is    *)
(* delivered, so the three try_borrow calls succeed.                       *)

Events ==
    {"DevicePaired", "DeviceUnpaired", "ControllerPaired",
     "ControllerUnpaired", "CharacteristicValueChanged"}

\* Responder::update_txt_records: publishes the records, or fails and
\* publishes nothing.
update_txt_records(txt, records, update_ok) ==
    IF update_ok THEN [ok |-> TRUE, txt_records |-> records]
    ELSE [ok |-> FALSE, txt_records |-> txt]

\* What a listener call leaves when it does nothing.
Skipped(c, txt) ==
    [config |-> c, txt_records |-> txt, wrote_flag |-> FALSE,
     pushed |-> None, panicked |-> FALSE]

\* An advertisement that acts only when the flag changes (a mutation of
\* Advertise).
AdvertiseOnEdge(c, flag, txt, update_ok) ==
    IF c.status_flag = flag THEN Skipped(c, txt)
    ELSE LET c2 == [c EXCEPT !.status_flag = flag]
             u == update_txt_records(txt, txt_records_of(c2), update_ok)
         IN  [config |-> c2, txt_records |-> u.txt_records, wrote_flag |-> TRUE,
              pushed |-> Some(txt_records_of(c2)), panicked |-> ~u.ok]

\* The body both arms share: c.status_flag = flag, then
\* update_txt_records(c.txt_records()).expect(..), which panics on Err.
Advertise(c, flag, txt, update_ok) ==
    LET c2 == [c EXCEPT !.status_flag = flag]
        u == update_txt_records(txt, txt_records_of(c2), update_ok)
    IN  [config |-> c2, txt_records |-> u.txt_records, wrote_flag |-> TRUE,
         pushed |-> Some(txt_records_of(c2)), panicked |-> ~u.ok]

\* A test that also passes for no pairings (a mutation of DevicePairedFires).
DevicePairedFiresAlways(count) == count >= 0

\* Ok(count) => if count > 0
DevicePairedFires(count) == count > 0

\* Ok(count) => if count == 0
DeviceUnpairedFires(count) == count = 0

\* The closure start() registers. count is what count_pairings returned:
\* Some(n) for Ok(n), None for Err.
advertisement_listener(event, count, c, txt, update_ok) ==
    IF event = "DevicePaired"
    THEN IF IsSome(count) /\ DevicePairedFires(Unwrap(count))
         THEN Advertise(c, "Zero", txt, update_ok)
         ELSE Skipped(c, txt)
    ELSE IF event = "DeviceUnpaired"
    THEN IF IsSome(count) /\ DeviceUnpairedFires(Unwrap(count))
         THEN Advertise(c, "NotPaired", txt, update_ok)
         ELSE Skipped(c, txt)
    ELSE Skipped(c, txt)

\* Emitter::emit: every registered listener is called; start() registers
\* one, and runs once.
emit(ls, event, count, c, txt, update_ok) ==
    IF ls = <<>> THEN Skipped(c, txt)
    ELSE advertisement_listener(event, count, c, txt, update_ok)

\* start(): the responder starts, the listener is registered, and the HTTP
\* server is handed a clone of the list handle (the shared vector and a
\* copy of id_count).
Start ==
    /\ last = Idle
    /\ listeners = <<>>
    /\ listeners' = <<"advertisement">>
    /\ clone_id_count' = Some(id_count)
    /\ last' = [op |-> "start"]
    /\ UNCHANGED <<listvars, borrows, pending, config, txt_records, pairings,
                   panicked>>

\* The pairing handshake stores or deletes a pairing in the database.
Pair ==
    /\ last = Idle
    /\ pairings < MaxPairings
    /\ pairings' = pairings + 1
    /\ last' = [op |-> "pair"]
    /\ UNCHANGED <<listvars, sharevars, listeners, config, txt_records, panicked>>

Unpair ==
    /\ last = Idle
    /\ pairings > 0
    /\ pairings' = pairings - 1
    /\ last' = [op |-> "unpair"]
    /\ UNCHANGED <<listvars, sharevars, listeners, config, txt_records, panicked>>

\* An event is emitted; count_ok is whether count_pairings succeeds and
\* update_ok whether the responder accepts new TXT records.
EmitEvent ==
    /\ last = Idle
    /\ \E event \in Events, count_ok, update_ok \in BOOLEAN :
        LET count == IF count_ok THEN Some(pairings) ELSE None
            r == emit(listeners, event, count, config, txt_records, update_ok)
        IN  /\ config' = r.config
            /\ txt_records' = r.txt_records
            /\ panicked' = r.panicked
            /\ last' = [op |-> "emit", event |-> event, count |-> count,
                        update_ok |-> update_ok, before |-> config,
                        wrote_flag |-> r.wrote_flag, pushed |-> r.pushed]
    /\ UNCHANGED <<listvars, sharevars, listeners, pairings>>

NextAdv ==
    \/ Start
    \/ Pair
    \/ Unpair
    \/ EmitEvent
    \/ Return

SpecAdv == Init /\ [][NextAdv]_vars

----------------------------------------------------------------------------
(* Vocabulary of the properties below. It reads the tree directly rather   *)
(* than through Lookup, so that a property about a lookup is not stated in *)
(* terms of the lookup itself.                                             *)

\* Every characteristic of a list, with the AID of its accessory.
Chars(accs) ==
    UNION { UNION { { [aid |-> accs[i].id,
                       c |-> accs[i].services[j].characteristics[k]] :
                        k \in 1..Len(accs[i].services[j].characteristics) } :
                    j \in 1..Len(accs[i].services) } :
            i \in 1..Len(accs) }

\* The characteristics of a list a request for (aid, iid) addresses.
Targets(accs, aid, iid) == {x \in Chars(accs) : x.aid = aid /\ x.c.id = iid}

\* A step that is a call of write_characteristic (last' describes it).
IsWriteStep == last = Idle /\ last'.op = "write"

\* The status of the response a call returned; None when it returned Err.
RetStatus(ret) == IF IsSome(ret) THEN Some(Unwrap(ret).status) ELSE None

----------------------------------------------------------------------------
(* C1: for every sequence of add_accessory and remove_accessory calls the  *)
(* k-th successful add_accessory assigns AID k (handles lists the AIDs     *)
(* returned, in order), so no AID is assigned twice, also after a removal, *)
(* and the AIDs of the accessories in the list are pairwise distinct.      *)
C1_AidsSequentialAndDistinct ==
    /\ \A k \in 1..Len(handles) : handles[k] = k
    /\ \A i, j \in 1..Len(accessories) :
        i # j => accessories[i].id # accessories[j].id

\* An add that succeeded after the first accessory had been removed.
C1_Witness ==
    /\ last.op = "add" /\ IsSome(last.ret)
    /\ Len(handles) = 2
    /\ Len(accessories) = 1

(* C2: read_characteristic for an (aid, iid) that matches no               *)
(* characteristic of the list returns status ResourceDoesNotExist, never   *)
(* status 0. (The code leaves the status at Some(0).)                      *)
C2_ReadMissingIsResourceDoesNotExist ==
    (last.op = "read" /\ Targets(accessories, last.aid, last.iid) = {})
        => last.ret.status = Some(ResourceDoesNotExist)

(* C3: write_characteristic for an (aid, iid) that matches no              *)
(* characteristic returns status ResourceDoesNotExist and leaves every     *)
(* value, every notification flag and the subscription set unchanged.      *)
(* (The code changes nothing, but answers status 0.)                       *)
C3_WriteMissingIsResourceDoesNotExist ==
    [][ (IsWriteStep /\ Targets(accessories, last'.wo.aid, last'.wo.iid) = {})
            => /\ RetStatus(last'.ret) = Some(ResourceDoesNotExist)
               /\ accessories' = accessories
               /\ event_subscriptions' = event_subscriptions ]_vars

(* C4: when ev and value are both present and the characteristic has       *)
(* neither Events nor PairedWrite, the status is that of the first error,  *)
(* NotificationNotSupported. (The code's value step overwrites it with     *)
(* ReadOnlyCharacteristic.)                                                *)
C4_FirstErrorWins ==
    (last.op = "write" /\ IsSome(last.wo.ev) /\ IsSome(last.wo.value))
        => \A x \in Targets(accessories, last.wo.aid, last.wo.iid) :
            ("Events" \notin x.c.perms /\ "PairedWrite" \notin x.c.perms)
                => RetStatus(last.ret) = Some(NotificationNotSupported)

(* C5: when ev and value are both present and the ev step fails for lack   *)
(* of Events, the value step is not applied: the value is unchanged and no *)
(* CharacteristicValueChanged is published, also with PairedWrite. (The    *)
(* code runs the value step regardless of the ev step's status.)           *)
C5_EvFailureShortCircuits ==
    [][ (IsWriteStep /\ IsSome(last'.wo.ev) /\ IsSome(last'.wo.value))
            => \A x \in Targets(accessories, last'.wo.aid, last'.wo.iid) :
                "Events" \notin x.c.perms
                    => /\ accessories' = accessories
                       /\ last'.events = <<>> ]_vars

(* C6: after remove_accessory succeeded for AID a, no session's            *)
(* subscription set holds a pair (a, iid). (remove_accessory never touches *)
(* the subscription sets.)                                                 *)
C6_RemoveDropsSubscriptions ==
    (last.op = "remove" /\ last.ok)
        => \A s \in Sessions : \A i \in 1..Len(event_subscriptions[s]) :
            event_subscriptions[s][i][1] # last.aid

(* C7: a write to a characteristic with PairedWrite whose value is         *)
(* rejected by set_value returns a response with status                    *)
(* InvalidValueInRequest. (The code's `?` returns the error instead.)      *)
C7_RejectedValueIsInvalidValueInRequest ==
    (last.op = "write" /\ IsSome(last.wo.value))
        => \A x \in Targets(accessories, last.wo.aid, last.wo.iid) :
            ("PairedWrite" \in x.c.perms /\ ~ValidValue(x.c, Unwrap(last.wo.value)))
                => RetStatus(last.ret) = Some(InvalidValueInRequest)

(* C8: for an existing characteristic and every combination of the flags,  *)
(* read_characteristic populates value exactly when the characteristic has *)
(* PairedRead; without it the status is WriteOnlyCharacteristic and there  *)
(* is no value, with it the status is 0.                                   *)
C8_ReadGatedByPairedRead ==
    last.op = "read"
        => \A x \in Targets(accessories, last.aid, last.iid) :
            /\ IsSome(last.ret.value) <=> "PairedRead" \in x.c.perms
            /\ "PairedRead" \in x.c.perms
                => /\ last.ret.status = Some(Success)
                   /\ last.ret.value = Some(x.c.value)
            /\ "PairedRead" \notin x.c.perms
                => /\ last.ret.status = Some(WriteOnlyCharacteristic)
                   /\ last.ret.value = None

\* A read of a write-only characteristic with every flag set.
C8_Witness ==
    /\ last.op = "read"
    /\ last.meta /\ last.perms /\ last.hap_type /\ last.ev
    /\ \E x \in Targets(accessories, last.aid, last.iid) :
        "PairedRead" \notin x.c.perms

(* C9: a write carrying a value changes the value of its characteristic    *)
(* only if that has PairedWrite; without PairedWrite the status is         *)
(* ReadOnlyCharacteristic and the value (what a later read returns) is the *)
(* same after the call as before.                                          *)
C9_WriteGatedByPairedWrite ==
    [][ (IsWriteStep /\ IsSome(last'.wo.value))
            => \A x \in Targets(accessories, last'.wo.aid, last'.wo.iid) :
                /\ "PairedWrite" \notin x.c.perms
                    => /\ RetStatus(last'.ret) = Some(ReadOnlyCharacteristic)
                       /\ \A y \in Targets(accessories', x.aid, x.c.id) :
                            y.c.value = x.c.value
                       /\ read_characteristic(accessories', x.aid, x.c.id,
                                              FALSE, FALSE, FALSE, FALSE).value
                          = read_characteristic(accessories, x.aid, x.c.id,
                                                FALSE, FALSE, FALSE, FALSE).value
                /\ (\E y \in Targets(accessories', x.aid, x.c.id) :
                        y.c.value # x.c.value)
                    => "PairedWrite" \in x.c.perms ]_vars

\* A write of a new value to a characteristic without PairedWrite.
C9_Witness ==
    /\ last.op = "write" /\ IsSome(last.wo.value)
    /\ \E x \in Targets(accessories, last.wo.aid, last.wo.iid) :
        /\ "PairedWrite" \notin x.c.perms
        /\ x.c.value # Unwrap(last.wo.value)

(* C10: a write carrying ev to a characteristic without Events answers     *)
(* NotificationNotSupported and leaves the notification flag and the       *)
(* subscription set unchanged. (The flag and the set are unchanged, but    *)
(* the status is overwritten when the value step fails too: see C4.)       *)
C10_EvWithoutEventsIsNotSupported ==
    [][ (IsWriteStep /\ IsSome(last'.wo.ev) /\ IsSome(last'.ret))
            => \A x \in Targets(accessories, last'.wo.aid, last'.wo.iid) :
                "Events" \notin x.c.perms
                    => /\ RetStatus(last'.ret) = Some(NotificationNotSupported)
                       /\ \A y \in Targets(accessories', x.aid, x.c.id) :
                            y.c.event_notifications = x.c.event_notifications
                       /\ event_subscriptions' = event_subscriptions ]_vars

----------------------------------------------------------------------------
(* Vocabulary of the subscription properties.                              *)

\* How often a session's subscription vector holds a pair.
Occurrences(es, pair) == Cardinality({i \in 1..Len(es) : es[i] = pair})

\* Every pair a request may name.
Pairs == AIDs \X IIDs

\* A step in which session s writes ev to the pair and the ev step is
\* applied: the pair addresses a characteristic that has Events.
IsEvWriteOf(s, pair) ==
    /\ IsWriteStep
    /\ last'.session = s
    /\ <<last'.wo.aid, last'.wo.iid>> = pair
    /\ IsSome(last'.wo.ev)
    /\ \E x \in Targets(accessories, pair[1], pair[2]) : "Events" \in x.c.perms

C12_ReadMutatesNothing ==
    [][ (last = Idle /\ last'.op = "read")
            => /\ accessories' = accessories
               /\ id_count' = id_count
               /\ event_subscriptions' = event_subscriptions ]_vars

\* A read that hit a subscribed characteristic and reported its flag.
C12_Witness ==
    /\ last.op = "read" /\ last.ev
    /\ IsSome(last.ret.value)
    /\ last.ret.ev = Some(TRUE)

\* The accessories of a list other than those with AID a, in their order.
Without(accs, a) ==
    LET Keep(x) == x.id # a IN SelectSeq(accs, Keep)

\* No read finds, and no write changes, anything under AID a in a list.
Unreachable(accs, a) ==
    /\ \A iid \in IIDs, meta, perms, hap_type, ev \in BOOLEAN :
        LET r == read_characteristic(accs, a, iid, meta, perms, hap_type, ev) IN
        /\ r.value = None /\ r.ev = None /\ r.perms = None
        /\ r.hap_type = None /\ r.format = None
    /\ \A s \in AllSessions, iid \in IIDs, value \in OptValues, ev \in OptBools :
        LET w == write_characteristic(accs, WriteObject(a, iid, value, ev),
                                      event_subscriptions'[s]) IN
        /\ w.accessories = accs
        /\ w.es = event_subscriptions'[s]
        /\ w.events = <<>>

----------------------------------------------------------------------------
\* An event delivered after start() has registered the listener.
IsEmitStep == last = Idle /\ last'.op = "emit" /\ listeners # <<>>

\* C14: once start() has registered the listener, DevicePaired with a
\* pairings count > 0 sets status_flag to Zero and pushes the TXT records
\* computed from the updated config (sf = "0"), which become the
\* responder's records when the update succeeds; DeviceUnpaired with count
\* 0 sets NotPaired and pushes sf = "1"; DevicePaired with count 0,
\* DeviceUnpaired with count > 0, a failed count query and every other
\* event kind leave status_flag and the responder's TXT records unchanged.
C14_ListenerFollowsPairings ==
    [][IsEmitStep =>
        LET e == last'.event
            n == last'.count
        IN  IF e = "DevicePaired" /\ IsSome(n) /\ Unwrap(n) > 0
            THEN /\ config'.status_flag = "Zero"
                 /\ last'.pushed = Some(txt_records_of(config'))
                 /\ Unwrap(last'.pushed).sf = "0"
                 /\ last'.update_ok => txt_records' = Unwrap(last'.pushed)
            ELSE IF e = "DeviceUnpaired" /\ n = Some(0)
            THEN /\ config'.status_flag = "NotPaired"
                 /\ last'.pushed = Some(txt_records_of(config'))
                 /\ Unwrap(last'.pushed).sf = "1"
                 /\ last'.update_ok => txt_records' = Unwrap(last'.pushed)
            ELSE /\ config' = config
                 /\ txt_records' = txt_records
                 /\ last'.pushed = None]_vars

\* The last pairing was removed after the device had been advertised as
\* paired, and the responder again publishes sf = "1".
C14_Witness ==
    /\ last.op = "emit"
    /\ last.event = "DeviceUnpaired"
    /\ last.count = Some(0)
    /\ last.before.status_flag = "Zero"
    /\ config.status_flag = "NotPaired"
    /\ txt_records.sf = "1"

\* C15: a failure of the responder's TXT-record update while the listener
\* handles DevicePaired or DeviceUnpaired is swallowed; the listener
\* returns normally and no panic state is reachable.
C15_UpdateFailureSwallowed ==
    (last.op = "emit" /\ last.event \in {"DevicePaired", "DeviceUnpaired"})
        => ~panicked

\* C16 as stated: a DevicePaired event received while status_flag is
\* already Zero (the count went from n >= 1 to n + 1) writes no status_flag
\* and calls no update_txt_records; likewise DeviceUnpaired while
\* status_flag is already NotPaired.
C16_WritesOnlyOnEdges ==
    [][IsEmitStep =>
        /\ (last'.event = "DevicePaired" /\ config.status_flag = "Zero"
                /\ pairings >= 2 /\ last'.count = Some(pairings))
            => (~last'.wrote_flag /\ last'.pushed = None)
        /\ (last'.event = "DeviceUnpaired"
                /\ config.status_flag = "NotPaired")
            => (~last'.wrote_flag /\ last'.pushed = None)]_vars

\* C16, amended: the value of status_flag changes only on the transition,
\* but the listener is level-triggered. DevicePaired with count > 0 while
\* status_flag is already Zero assigns Zero again and calls
\* update_txt_records with the records already published; DeviceUnpaired
\* with count 0 while already NotPaired does the same with NotPaired. Only
\* an event whose count test fails writes and republishes nothing.
C16_LevelTriggered ==
    [][IsEmitStep =>
        LET e == last'.event
            n == last'.count
            again == \/ e = "DevicePaired" /\ config.status_flag = "Zero"
                        /\ IsSome(n) /\ Unwrap(n) > 0
                     \/ e = "DeviceUnpaired"
                        /\ config.status_flag = "NotPaired" /\ n = Some(0)
        IN  /\ again =>
                /\ config' = config
                /\ last'.wrote_flag
                /\ last'.pushed = Some(txt_records)
                /\ last'.update_ok => txt_records' = txt_records
            /\ (last'.wrote_flag \/ IsSome(last'.pushed)) =>
                \/ e = "DevicePaired" /\ IsSome(n) /\ Unwrap(n) > 0
                \/ e = "DeviceUnpaired" /\ n = Some(0)]_vars

\* A second controller was paired: DevicePaired arrives with count 2 while
\* status_flag is already Zero, and the flag is written and the records
\* are pushed again.
C16_Witness ==
    /\ last.op = "emit"
    /\ last.event = "DevicePaired"
    /\ last.count = Some(2)
    /\ last.before.status_flag = "Zero"
    /\ last.wrote_flag
    /\ last.pushed = Some(txt_records)
    /\ ~panicked
----------------------------------------------------------------------------
(* Cloned handles and re-entrant calls. #[derive(Clone)] copies id_count   *)
(* and shares the Rc of the vector. While write_characteristic is inside   *)
(* set_value it holds `a`, the mutable borrow of the vector, and the       *)
(* mutable borrow of the accessory it found; set_value publishes           *)
(* CharacteristicValueChanged synchronously, and a listener may call the   *)
(* list through a handle it captured.                                      *)

\* AccessoryList::clone.
CloneList ==
    /\ last = Idle
    /\ pending = None
    /\ clone_id_count = None
    /\ clone_id_count' = Some(id_count)
    /\ last' = [op |-> "clone"]
    /\ UNCHANGED <<listvars, borrows, pending, advvars>>

\* A vector that never counts as borrowed (a mutation of Borrowed).
BorrowedNever(b) == FALSE

\* self.accessories.try_borrow() and try_borrow_mut() return Err while the
\* outer call holds its mutable borrow.
Borrowed(b) == b.accessories

\* accessory.try_borrow() on a handle returns Err while the outer call
\* holds that accessory mutably.
HandleBorrowed(b, handle_id) == b.accessory = Some(handle_id)

\* read_characteristic entered with borrows b: None is Err.
reentrant_read(b, accs, aid, iid, meta, perms, hap_type, ev) ==
    IF Borrowed(b) THEN None
    ELSE Some(read_characteristic(accs, aid, iid, meta, perms, hap_type, ev))

\* write_characteristic entered with borrows b.
reentrant_write(b, accs, wo, es) ==
    IF Borrowed(b)
    THEN [accessories |-> accs, es |-> es, events |-> <<>>, ret |-> None]
    ELSE write_characteristic(accs, wo, es)

\* add_accessory entered with borrows b: set_id and init_iids act on the
\* new accessory, then the push needs the vector.
reentrant_add(b, accs, count, accessory, init_ok) ==
    IF init_ok /\ Borrowed(b)
    THEN [accessories |-> accs, id_count |-> count, ret |-> None]
    ELSE add_accessory(accs, count, accessory, init_ok)

\* remove_accessory entered with borrows b: the handle is borrowed first,
\* then the vector.
reentrant_remove(b, accs, handle_id) ==
    IF HandleBorrowed(b, handle_id) \/ Borrowed(b)
    THEN [accessories |-> accs, ok |-> FALSE]
    ELSE remove_accessory(accs, handle_id)

\* write_characteristic up to the point where set_value has published
\* CharacteristicValueChanged: the ev step and the value are applied, the
\* borrows are held, and the response is still to be returned.
WriteSuspend ==
    /\ last = Idle
    /\ pending = None
    /\ \E s \in Sessions, aid \in AIDs, iid \in IIDs,
          value \in OptValues, ev \in OptBools :
        LET wo == WriteObject(aid, iid, value, ev)
            r == write_characteristic(accessories, wo, event_subscriptions[s])
        IN  /\ r.events # <<>>
            /\ accessories' = r.accessories
            /\ event_subscriptions' = [event_subscriptions EXCEPT ![s] = r.es]
            /\ borrows' = [accessories |-> TRUE, accessory |-> Some(aid)]
            /\ pending' = Some([op |-> "write", session |-> s, wo |-> wo,
                                ret |-> r.ret, events |-> r.events])
    /\ UNCHANGED <<id_count, handles, last, clone_id_count, advvars>>

\* The listener reads a value, with or without the ev flag; it asks for no
\* meta, perms or type.
InnerRead ==
    /\ last = Idle
    /\ pending # None
    /\ \E aid \in AIDs, iid \in IIDs, ev \in BOOLEAN :
        last' = [op |-> "inner", call |-> "read", aid |-> aid, iid |-> iid,
                 ret |-> reentrant_read(borrows, accessories, aid, iid,
                                        FALSE, FALSE, FALSE, ev)]
    /\ UNCHANGED <<listvars, sharevars, advvars>>

InnerWrite ==
    /\ last = Idle
    /\ pending # None
    /\ \E s \in Sessions, aid \in AIDs, iid \in IIDs,
          value \in OptValues, ev \in OptBools :
        LET wo == WriteObject(aid, iid, value, ev)
            r == reentrant_write(borrows, accessories, wo,
                                 event_subscriptions[s])
        IN  /\ accessories' = r.accessories
            /\ event_subscriptions' = [event_subscriptions EXCEPT ![s] = r.es]
            /\ last' = [op |-> "inner", call |-> "write", aid |-> aid,
                        iid |-> iid, ret |-> r.ret]
    /\ UNCHANGED <<id_count, handles, sharevars, advvars>>

\* The listener adds through the clone it holds.
InnerAdd ==
    /\ last = Idle
    /\ pending # None
    /\ IsSome(clone_id_count)
    /\ Unwrap(clone_id_count) <= MaxAdds
    /\ \E t \in TemplateNames, init_ok \in BOOLEAN :
        LET r == reentrant_add(borrows, accessories, Unwrap(clone_id_count),
                               Templates[t], init_ok)
        IN  /\ accessories' = r.accessories
            /\ clone_id_count' = Some(r.id_count)
            /\ handles' = IF IsSome(r.ret) THEN Append(handles, Unwrap(r.ret))
                          ELSE handles
            /\ last' = [op |-> "inner", call |-> "add", init_ok |-> init_ok,
                        ret |-> r.ret]
    /\ UNCHANGED <<id_count, event_subscriptions, borrows, pending, advvars>>

InnerRemove ==
    /\ last = Idle
    /\ pending # None
    /\ IsSome(clone_id_count)
    /\ \E h \in 1..Len(handles) :
        LET r == reentrant_remove(borrows, accessories, handles[h]) IN
        /\ accessories' = r.accessories
        /\ last' = [op |-> "inner", call |-> "remove", aid |-> handles[h],
                    ret |-> IF r.ok THEN Some(TRUE) ELSE None]
    /\ UNCHANGED <<id_count, handles, event_subscriptions, sharevars, advvars>>

\* The listener takes the result of its call.
InnerReturn ==
    /\ pending # None
    /\ last # Idle
    /\ last' = Idle
    /\ UNCHANGED <<listvars, sharevars, advvars>>

\* The listener returns; set_value returns, the loop breaks, the borrows
\* are dropped and the response goes to the caller.
WriteResume ==
    /\ last = Idle
    /\ pending # None
    /\ last' = Unwrap(pending)
    /\ pending' = None
    /\ borrows' = NoBorrows
    /\ UNCHANGED <<listvars, clone_id_count, advvars>>

NextReentrant ==
    \/ AddAccessory
    \/ CloneList
    \/ WriteSuspend
    \/ InnerRead
    \/ InnerWrite
    \/ InnerAdd
    \/ InnerRemove
    \/ InnerReturn
    \/ WriteResume
    \/ Return

SpecReentrant == Init /\ [][NextReentrant]_vars

\* A call made by a listener while the outer write is suspended.
IsInnerStep == pending # None /\ last = Idle /\ last'.op = "inner"

\* C17: a call into the list made while write_characteristic is inside
\* set_value, through a handle sharing the vector, does not panic; it
\* returns an error, and the list (with the outer write's target
\* characteristic), the outer handle's id_count and the handle's own
\* counter are as before the inner call.
C17_ReentrantCallFailsCleanly ==
    [][IsInnerStep =>
        /\ last'.ret = None
        /\ ~panicked'
        /\ accessories' = accessories
        /\ id_count' = id_count
        /\ clone_id_count' = clone_id_count
        /\ event_subscriptions' = event_subscriptions]_vars

\* A listener's write to the very characteristic the outer write is
\* setting has returned its error.
C17_Witness ==
    /\ pending # None
    /\ last.op = "inner"
    /\ last.call = "write"
    /\ last.aid = Unwrap(pending).wo.aid
    /\ last.iid = Unwrap(pending).wo.iid
    /\ last.ret = None
    /\ borrows.accessories
----------------------------------------------------------------------------
(* Adds through the original handle and through a clone of it.             *)

\* add_accessory called on the clone: it numbers the accessory with its own
\* id_count and pushes onto the shared vector.
AddAccessoryViaClone ==
    /\ last = Idle
    /\ IsSome(clone_id_count)
    /\ Unwrap(clone_id_count) <= MaxAdds
    /\ \E t \in TemplateNames, init_ok \in BOOLEAN :
        LET r == add_accessory(accessories, Unwrap(clone_id_count),
                               Templates[t], init_ok)
        IN  /\ accessories' = r.accessories
            /\ clone_id_count' = Some(r.id_count)
            /\ handles' = IF IsSome(r.ret) THEN Append(handles, Unwrap(r.ret))
                          ELSE handles
            /\ last' = [op |-> "add", via |-> "clone", ret |-> r.ret]
    /\ UNCHANGED <<id_count, event_subscriptions, borrows, pending, advvars>>

NextClone ==
    \/ AddAccessory
    \/ CloneList
    \/ AddAccessoryViaClone
    \/ Return

SpecClone == Init /\ [][NextClone]_vars

\* C18: with a clone of the list handle in use, for every interleaving of
\* add_accessory calls through the original and through the clone, the
\* AIDs of the accessories in the shared vector are pairwise distinct.
C18_AidsDistinctAcrossClones ==
    \A i, j \in 1..Len(accessories) :
        i # j => get_id(accessories[i]) # get_id(accessories[j])
----------------------------------------------------------------------------
(* Several sessions, each with its own subscription set, on one list.      *)

WriteCharacteristicAnySession == WriteCharacteristicBy(AllSessions)

NextSessions ==
    \/ AddAccessory
    \/ ReadCharacteristic
    \/ WriteCharacteristicAnySession
    \/ Return

SpecSessions == Init /\ [][NextSessions]_vars

\* C19: with several sessions writing ev flags to a characteristic that has
\* PairedRead and Events, a read with ev = true reports ev as true exactly
\* when (aid, iid) is in the subscription set of the session, for every
\* session: read_characteristic takes no session, so what it reports has
\* to agree with each of them.
C19_EvFlagIsPerSession ==
    (last.op = "read" /\ last.ev)
        => \A x \in Targets(accessories, last.aid, last.iid) :
            ("PairedRead" \in x.c.perms /\ "Events" \in x.c.perms)
                => \A s \in AllSessions :
                    (last.ret.ev = Some(TRUE))
                        <=> Position(event_subscriptions[s],
                                     <<last.aid, last.iid>>) # None

\* C20: when write_characteristic returns Err, the list (the notification
\* flag and the value of every characteristic) and the subscription set of
\* the session are as before the call.
C20_FailedWriteChangesNothing ==
    [][(IsWriteStep /\ last'.ret = None)
        => /\ accessories' = accessories
           /\ event_subscriptions' = event_subscriptions]_vars
====
